---- MODULE Spec2Model ----
(***************************************************************************)
(* Model of the two research scripts of the repository:                    *)
(*   2019-02-censored/modeling_censored_time_to_event_data_with_pyro.py    *)
(*   2020-03-forecasting/solar.py                                          *)
(* Each script is a state machine that runs top to bottom.  Sampling,      *)
(* gradients and inference belong to the probabilistic-programming         *)
(* library; what is modelled here is what the scripts themselves decide:   *)
(* which data reaches which model, which likelihood terms a model          *)
(* activates, which parameters a module creates and reads, how many rows   *)
(* are kept and which rows each backtest window trains on and scores.      *)
(***************************************************************************)
EXTENDS Integers, Sequences, FiniteSets

VARIABLES
    \* ---- censored script ----
    pc,                \* position in the censored script
    y,                 \* the sampled, uncensored event times (line 39)
    truncation_label,  \* line 41
    y_obs,             \* line 43
    svi_i,             \* loop counter of the SVI loop (line 153)
    calls,             \* the model invocations made so far, in order
    \* ---- solar script ----
    spc,               \* position in solar.py
    args,              \* the parsed command line (or constructor arguments)
    raw,               \* the rows returned by dataloader.get_data
    data,              \* get_data's first result
    covariates,        \* get_data's second result
    hmm,               \* the Model / StableLinearHMM last constructed
    dist,              \* the result of the last get_dist call
    next_t1,           \* the backtest loop variable t1
    windows,           \* the backtest windows evaluated so far, in order
    param_store,       \* the origins whose fit is in pyro's parameter store
    num_models         \* how many Model objects have been constructed

vars == <<pc, y, truncation_label, y_obs, svi_i, calls,
          spc, args, raw, data, covariates, hmm, dist, next_t1, windows,
          param_store, num_models>>

censored_vars == <<pc, y, truncation_label, y_obs, svi_i, calls>>
solar_vars == <<spc, args, raw, data, covariates, hmm, dist, next_t1,
                windows, param_store, num_models>>

(***************************************************************************)
(* Bounds of the model.                                                    *)
(***************************************************************************)
\* stands for n = 500 samples
NumSamples == 3
\* event times are drawn from c - YSpread .. c + YSpread
YSpread == 1
\* stands for the 5000 iterations of the SVI loop
SviSteps == 2

(***************************************************************************)
(* Censored script: data generation (lines 31-43).                         *)
(***************************************************************************)
c == 8

YVals == (c - YSpread)..(c + YSpread)

\* variant: clamp(min=m) in place of clamp(max=m)
clamp_max_wrong(v, m) == IF v < m THEN m ELSE v
\* Tensor.clamp(max=m) on one element
clamp_max(v, m) == IF v > m THEN m ELSE v

\* (y > c).float(), elementwise
label_of(ys, thr) == [i \in DOMAIN ys |-> IF ys[i] > thr THEN 1 ELSE 0]

\* y.clamp(max=c), elementwise
censor(ys, thr) == [i \in DOMAIN ys |-> clamp_max(ys[i], thr)]

(***************************************************************************)
(* Censored script: the two model functions.  A model call is described by *)
(* the likelihood terms (observed sample sites) it contributes for each    *)
(* data point: the site's family, the value of y it is evaluated at and    *)
(* the observed value.                                                     *)
(***************************************************************************)
ExpTerm(v) == [dist |-> "Exponential", at |-> v, obs |-> v]
BernTerm(v, o) == [dist |-> "Bernoulli", at |-> v, obs |-> o]

\* lines 55-72: the per-sample loop
model_sequential(ys, labels) ==
    [i \in DOMAIN ys |->
        IF labels[i] = 0
        THEN {ExpTerm(ys[i])}
        ELSE {BernTerm(ys[i], labels[i])}]

\* variant: the second mask repeats the first
mask_censored_wrong(labels) == [i \in DOMAIN labels |-> labels[i] = 0]
\* lines 96-113: plate and two masks; a masked-out site contributes nothing
mask_censored(labels) == [i \in DOMAIN labels |-> labels[i] = 1]
mask_observed(labels) == [i \in DOMAIN labels |-> labels[i] = 0]

model_vectorized(ys, labels) ==
    [i \in DOMAIN ys |->
        (IF mask_observed(labels)[i] THEN {ExpTerm(ys[i])} ELSE {})
        \cup
        (IF mask_censored(labels)[i] THEN {BernTerm(ys[i], 1)} ELSE {})]

Call(run, ys, labels, terms) ==
    [run |-> run, y |-> ys, truncation_label |-> labels, terms |-> terms]

(***************************************************************************)
(* Censored script: the steps.                                             *)
(***************************************************************************)
\* lines 41-43
Censor ==
    /\ pc = "generate"
    /\ truncation_label' = label_of(y, c)
    /\ y_obs' = censor(y, c)
    /\ pc' = "hmc_sequential"
    /\ UNCHANGED <<y, svi_i, calls>>
    /\ UNCHANGED solar_vars

\* lines 75-82: MCMC(...).run(x, y, truncation_label) with the sequential model
RunSequentialHMC ==
    /\ pc = "hmc_sequential"
    /\ calls' = Append(calls, Call("hmc_sequential", y, truncation_label,
                                   model_sequential(y, truncation_label)))
    /\ pc' = "hmc_vectorized"
    /\ UNCHANGED <<y, truncation_label, y_obs, svi_i>>
    /\ UNCHANGED solar_vars

\* lines 117-124: MCMC(...).run(x, y, truncation_label) with the vectorized model
RunVectorizedHMC ==
    /\ pc = "hmc_vectorized"
    /\ calls' = Append(calls, Call("hmc_vectorized", y, truncation_label,
                                   model_vectorized(y, truncation_label)))
    /\ pc' = "svi"
    /\ UNCHANGED <<y, truncation_label, y_obs, svi_i>>
    /\ UNCHANGED solar_vars

\* lines 153-155: one svi.step(x, y_obs, truncation_label); `model` is by now
\* the vectorized definition
SviStep ==
    /\ pc = "svi"
    /\ svi_i < SviSteps
    /\ calls' = Append(calls, Call("svi", y_obs, truncation_label,
                                   model_vectorized(y_obs, truncation_label)))
    /\ svi_i' = svi_i + 1
    /\ pc' = IF svi_i + 1 = SviSteps THEN "done" ELSE "svi"
    /\ UNCHANGED <<y, truncation_label, y_obs>>
    /\ UNCHANGED solar_vars


(***************************************************************************)
(* solar.py: bounds and program constants.                                 *)
(***************************************************************************)
\* train_window and test_window range over 1..MaxWindow
MaxWindow == 2
\* num_windows ranges over 0..MaxNumWindows
MaxNumWindows == 2
\* stride ranges over 1..MaxStride
MaxStride == 2
\* state_dim and obs_dim of a directly constructed Model range over 1..MaxDim
MaxDim == 2
\* number of columns of the raw data
NumCols == 1
\* the raw data of a get_data run has up to MaxRows rows of arbitrary cells
MaxRows == 3
\* the raw data of a full run of main has up to MaxRawLen rows
MaxRawLen == 7
\* the integer arguments of the command line reach down to -MaxNeg
MaxNeg == 1

DefaultStateDim == 6
DefaultNumSteps == 800
DefaultLogEvery == 5
DefaultStride == 1

\* the names accepted on lines 35-36 (and by argparse, lines 276-277)
NoiseNames == {"gaussian", "stable", "student", "skew"}
\* names outside that list (the comparison is case-sensitive)
OtherNames == {"laplace", "Gaussian"}

RawVals == {0, 1}

(***************************************************************************)
(* StableLinearHMM (lines 28-88).                                          *)
(***************************************************************************)
\* variant: the second assertion repeats the first
noise_assertions_wrong(trans_noise, obs_noise) ==
    /\ trans_noise \in {"gaussian", "stable", "student", "skew"}
    /\ trans_noise \in {"gaussian", "stable", "student", "skew"}
\* lines 35-36
noise_assertions(trans_noise, obs_noise) ==
    /\ trans_noise \in {"gaussian", "stable", "student", "skew"}
    /\ obs_noise \in {"gaussian", "stable", "student", "skew"}

\* lines 38-41
base_params == {"obs_noise_scale", "trans_noise_scale", "trans_matrix", "obs_matrix"}

\* variant: trans_skew is created for "stable" in place of "skew"
trans_params_wrong(trans_noise) ==
    IF trans_noise \in {"stable", "skew"}
    THEN {"trans_stability"}
         \cup (IF trans_noise = "stable" THEN {"trans_skew"} ELSE {})
    ELSE IF trans_noise = "student" THEN {"trans_nu"} ELSE {}
\* lines 42-47
trans_params(trans_noise) ==
    IF trans_noise \in {"stable", "skew"}
    THEN {"trans_stability"}
         \cup (IF trans_noise = "skew" THEN {"trans_skew"} ELSE {})
    ELSE IF trans_noise = "student" THEN {"trans_nu"} ELSE {}

\* lines 48-53
obs_params(obs_noise) ==
    IF obs_noise \in {"stable", "skew"}
    THEN {"obs_stability"}
         \cup (IF obs_noise = "skew" THEN {"obs_skew"} ELSE {})
    ELSE IF obs_noise = "student" THEN {"obs_nu"} ELSE {}

\* lines 29-53: the plain attributes are set before the assertions, the
\* parameters after them
StableLinearHMM_init(obs_dim, trans_noise, obs_noise, state_dim) ==
    [failed      |-> ~noise_assertions(trans_noise, obs_noise),
     trans_noise |-> trans_noise,
     obs_noise   |-> obs_noise,
     state_dim   |-> state_dim,
     obs_dim     |-> obs_dim,
     params      |-> IF noise_assertions(trans_noise, obs_noise)
                     THEN base_params \cup trans_params(trans_noise)
                                      \cup obs_params(obs_noise)
                     ELSE {}]

\* lines 58-72; the gaussian branch uses the obs_scale argument
get_obs_dist(m) ==
    IF m.obs_noise = "stable"
    THEN [family |-> "Stable", skew |-> "zero",
          reads |-> {"obs_stability", "obs_noise_scale"}]
    ELSE IF m.obs_noise = "skew"
    THEN [family |-> "Stable", skew |-> "learned",
          reads |-> {"obs_stability", "obs_skew", "obs_noise_scale"}]
    ELSE IF m.obs_noise = "student"
    THEN [family |-> "StudentT", skew |-> "none",
          reads |-> {"obs_nu", "obs_noise_scale"}]
    ELSE [family |-> "Normal", skew |-> "none", reads |-> {}]

\* lines 74-84
get_trans_dist(m) ==
    IF m.trans_noise = "stable"
    THEN [family |-> "Stable", skew |-> "zero",
          reads |-> {"trans_stability", "trans_noise_scale"}]
    ELSE IF m.trans_noise = "skew"
    THEN [family |-> "Stable", skew |-> "learned",
          reads |-> {"trans_stability", "trans_skew", "trans_noise_scale"}]
    ELSE IF m.trans_noise = "student"
    THEN [family |-> "StudentT", skew |-> "none",
          reads |-> {"trans_nu", "trans_noise_scale"}]
    ELSE [family |-> "Normal", skew |-> "none",
          reads |-> {"trans_noise_scale"}]

\* no distribution has been built
NoDist ==
    [trans |-> [family |-> "", skew |-> "", reads |-> {}],
     obs   |-> [family |-> "", skew |-> "", reads |-> {}],
     reads |-> {}]

\* lines 86-88
get_dist(m) ==
    [trans |-> get_trans_dist(m),
     obs   |-> get_obs_dist(m),
     reads |-> {"trans_matrix", "obs_matrix"}
               \cup get_trans_dist(m).reads \cup get_obs_dist(m).reads]

(***************************************************************************)
(* Model (lines 116-139).                                                  *)
(***************************************************************************)
\* variant: "skew" is given the symmetric reparameterizer
reparam_of_wrong(noise) ==
    IF noise = "stable" THEN "SymmetricStableReparam"
    ELSE IF noise = "skew" THEN "SymmetricStableReparam"
    ELSE IF noise = "student" THEN "StudentTReparam"
    ELSE "None"
\* lines 126-131 and 132-137: the same chain for trans and for obs
reparam_of(noise) ==
    IF noise = "stable" THEN "SymmetricStableReparam"
    ELSE IF noise = "skew" THEN "StableReparam"
    ELSE IF noise = "student" THEN "StudentTReparam"
    ELSE "None"

\* an object that has not been constructed
NoModel ==
    [failed |-> FALSE, trans_noise |-> "", obs_noise |-> "", state_dim |-> 0,
     obs_dim |-> 0, params |-> {}, config |-> [obs |-> "", trans |-> ""],
     id |-> 0]

\* lines 117-139; a failed StableLinearHMM leaves no Model and no config
Model_init(trans_noise, obs_noise, state_dim, obs_dim, id) ==
    [failed      |-> StableLinearHMM_init(obs_dim, trans_noise, obs_noise,
                                          state_dim).failed,
     trans_noise |-> trans_noise,
     obs_noise   |-> obs_noise,
     state_dim   |-> state_dim,
     obs_dim     |-> obs_dim,
     params      |-> StableLinearHMM_init(obs_dim, trans_noise, obs_noise,
                                          state_dim).params,
     config      |-> IF StableLinearHMM_init(obs_dim, trans_noise, obs_noise,
                                             state_dim).failed
                     THEN [obs |-> "", trans |-> ""]
                     ELSE [obs |-> reparam_of(obs_noise),
                           trans |-> reparam_of(trans_noise)],
     id          |-> id]

\* Model(...) or StableLinearHMM(...) called with arbitrary arguments
ConstructModel ==
    /\ spc = "construct"
    /\ hmm' = Model_init(args.trans_noise, args.obs_noise, args.state_dim,
                         args.obs_dim, num_models + 1)
    /\ num_models' = num_models + 1
    /\ spc' = IF hmm'.failed THEN "assert_failed" ELSE "constructed"
    /\ UNCHANGED <<args, raw, data, covariates, dist, next_t1, windows,
                   param_store>>
    /\ UNCHANGED censored_vars

\* line 165: self.hmm.get_dist(...); reading a parameter the constructor did
\* not create raises AttributeError
GetDist ==
    /\ spc = "constructed"
    /\ dist' = get_dist(hmm)
    /\ spc' = IF get_dist(hmm).reads \subseteq hmm.params
              THEN "dist_built" ELSE "attribute_error"
    /\ UNCHANGED <<args, raw, data, covariates, hmm, next_t1, windows,
                   param_store, num_models>>
    /\ UNCHANGED censored_vars

(***************************************************************************)
(* get_data (lines 91-113).                                                *)
(***************************************************************************)
RECURSIVE SumTo(_, _)
\* f[1] + ... + f[n]
SumTo(f, n) == IF n = 0 THEN 0 ELSE f[n] + SumTo(f, n - 1)

\* a slice bound as slicing reads it: a negative bound counts from the end,
\* and the result is clamped to 0..len
SliceBound(len, b) ==
    IF b < 0 THEN (IF len + b < 0 THEN 0 ELSE len + b)
    ELSE IF b > len THEN len ELSE b

\* tensor[lo:hi] along the first dimension
Slice(seq, lo, hi) ==
    [k \in 1..(SliceBound(Len(seq), hi) - SliceBound(Len(seq), lo)) |->
        seq[SliceBound(Len(seq), lo) + k]]

\* the row indices (0-based) that tensor[lo:hi] selects
SliceRows(seq, lo, hi) ==
    {t \in 0..(Len(seq) - 1) :
        SliceBound(Len(seq), lo) <= t /\ t < SliceBound(Len(seq), hi)}

\* lines 100-103, one column: with n rows, sum S and d_i = n * v_i - S,
\* (v_i - mean) / std = d_i * sqrt(n - 1) / sqrt(sum_j d_j^2); the value is
\* kept exactly as the triple (d_i, n - 1, sum_j d_j^2), and a triple with
\* ss = 0 is the NaN that 0 / 0 gives
StandardizeCol(col) ==
    [i \in 1..Len(col) |->
        [num |-> Len(col) * col[i] - SumTo(col, Len(col)),
         n1  |-> Len(col) - 1,
         ss  |-> SumTo([j \in 1..Len(col) |->
                          (Len(col) * col[j] - SumTo(col, Len(col)))
                          * (Len(col) * col[j] - SumTo(col, Len(col)))],
                       Len(col))]]

\* lines 100-103: mean(0) and std(0) are taken per column
Standardize(rows) ==
    [i \in 1..Len(rows) |->
        [j \in 1..Len(rows[i]) |->
            StandardizeCol([k \in 1..Len(rows) |-> rows[k][j]])[i]]]

\* line 107: periodic_features(data.size(0), ...): one row of features per
\* time step, a function of the time index alone
periodic_features(duration) == [t \in 1..duration |-> t - 1]

\* line 95
to_keep(a) == a.train_window + a.num_windows * a.test_window

\* lines 91-113
GetData ==
    /\ spc = "start"
    /\ IF to_keep(args) <= Len(raw)
       THEN /\ data' = Standardize(Slice(raw, 0, to_keep(args)))
            /\ covariates' = periodic_features(Len(data'))
            /\ spc' = "data_ready"
       ELSE /\ spc' = "assert_failed"
            /\ UNCHANGED <<data, covariates>>
    /\ UNCHANGED <<args, raw, hmm, dist, next_t1, windows, param_store,
                   num_models>>
    /\ UNCHANGED censored_vars

(***************************************************************************)
(* main (lines 171-218) and the library's backtest loop it drives.         *)
(***************************************************************************)
\* variant: the commented-out "if t1 == args.train_window else 200" is live
svi_forecaster_options_wrong(a, t0, t1, t2) ==
    [num_steps           |-> IF t1 = a.train_window THEN a.num_steps ELSE 200,
     learning_rate       |-> a.learning_rate,
     learning_rate_decay |-> a.learning_rate_decay,
     log_every           |-> a.log_every,
     dct_gradients       |-> FALSE,
     warm_start          |-> FALSE,
     clip_norm           |-> a.clip_norm,
     vectorize_particles |-> FALSE,
     num_particles       |-> 1]
\* lines 193-202; the result does not mention t0, t1 or t2
svi_forecaster_options(a, t0, t1, t2) ==
    [num_steps           |-> a.num_steps,
     learning_rate       |-> a.learning_rate,
     learning_rate_decay |-> a.learning_rate_decay,
     log_every           |-> a.log_every,
     dct_gradients       |-> FALSE,
     warm_start          |-> FALSE,
     clip_norm           |-> a.clip_norm,
     vectorize_particles |-> FALSE,
     num_particles       |-> 1]

\* lines 208-209: the lambda handed to backtest; data.size(-1) is the number
\* of columns of the retained data
model_fn(a, d, id) ==
    Model_init(a.trans_noise, a.obs_noise, a.state_dim, Len(d[1]), id)

\* lines 210-214: the window arguments of the backtest call; None is the
\* empty set, a given value v is {v}
backtest_args(a) ==
    [train_window     |-> {},
     min_train_window |-> a.train_window,
     test_window      |-> {a.test_window},
     stride           |-> a.stride]

TheOne(S) == CHOOSE v \in S : TRUE

\* backtest: the first origin and the bound of range(start, stop, stride)
backtest_start(b) ==
    IF b.train_window = {} THEN b.min_train_window ELSE TheOne(b.train_window)
backtest_stop(b, duration) ==
    IF b.test_window = {} THEN duration
    ELSE duration - TheOne(b.test_window) + 1

\* backtest: the window (t0, t1, t2) of origin t1
backtest_t0(b, t1) ==
    IF b.train_window = {} THEN 0 ELSE t1 - TheOne(b.train_window)
backtest_t2(b, t1, duration) ==
    IF b.test_window = {} THEN duration ELSE t1 + TheOne(b.test_window)

\* range(start, stop, stride) still holds t, for stride # 0
range_has(t, stop, stride) == IF stride > 0 THEN t < stop ELSE t > stop

\* line 207: backtest is entered; it asserts min_train_window >= 1, empties
\* the parameter store and starts the loop over range(start, stop, stride),
\* which raises ValueError for a stride of 0
BacktestBegin ==
    /\ spc = "data_ready"
    /\ next_t1' = backtest_start(backtest_args(args))
    /\ param_store' = {}
    /\ spc' = IF backtest_args(args).min_train_window < 1
              THEN "assert_failed"
              ELSE IF backtest_args(args).stride = 0
              THEN "value_error"
              ELSE IF range_has(backtest_start(backtest_args(args)),
                                backtest_stop(backtest_args(args), Len(data)),
                                backtest_args(args).stride)
              THEN "backtest" ELSE "done"
    /\ UNCHANGED <<args, raw, data, covariates, hmm, dist, windows,
                   num_models>>
    /\ UNCHANGED censored_vars

\* one iteration of backtest's loop: the options are asked for the window,
\* the parameter store is emptied unless they say warm_start, a model is
\* built by model_fn and fitted on data[t0:t1], and data[t1:t2] is scored
BacktestWindow ==
    /\ spc = "backtest"
    /\ LET b == backtest_args(args)
           duration == Len(data)
           t1 == next_t1
           t0 == backtest_t0(b, t1)
           t2 == backtest_t2(b, t1, duration)
           options == svi_forecaster_options(args, t0, t1, t2)
           store == IF options.warm_start THEN param_store ELSE {}
           model == model_fn(args, data, num_models + 1)
       IN  IF ~(0 <= t0 /\ t0 < t1 /\ t1 < t2 /\ t2 <= duration)
           THEN /\ spc' = "assert_failed"
                /\ UNCHANGED <<hmm, dist, next_t1, windows, param_store,
                               num_models>>
           ELSE /\ hmm' = model
                /\ num_models' = num_models + 1
                /\ dist' = get_dist(model)
                /\ windows' = Append(windows,
                       [t0 |-> t0, t1 |-> t1, t2 |-> t2,
                        train_rows |-> SliceRows(data, t0, t1),
                        scored_rows |-> SliceRows(data, t1, t2),
                        options |-> options,
                        model |-> model,
                        store_before |-> store])
                /\ param_store' = store \cup {t1}
                /\ next_t1' = t1 + b.stride
                /\ spc' = IF range_has(t1 + b.stride,
                                       backtest_stop(b, duration), b.stride)
                          THEN "backtest" ELSE "done"
    /\ UNCHANGED <<args, raw, data, covariates>>
    /\ UNCHANGED censored_vars

(***************************************************************************)
(* Initial states and specifications.                                      *)
(***************************************************************************)
CensoredIdle ==
    /\ pc = "idle"
    /\ y = <<>>
    /\ truncation_label = <<>>
    /\ y_obs = <<>>
    /\ svi_i = 0
    /\ calls = <<>>

Args(tn, on, sd, od, tw, sw, nw, st, ns) ==
    [trans_noise |-> tn, obs_noise |-> on, state_dim |-> sd, obs_dim |-> od,
     train_window |-> tw, test_window |-> sw, num_windows |-> nw,
     stride |-> st, num_steps |-> ns, log_every |-> DefaultLogEvery,
     learning_rate |-> "0.03", learning_rate_decay |-> "0.003",
     clip_norm |-> "10.0"]

SolarFresh ==
    /\ data = <<>>
    /\ covariates = <<>>
    /\ hmm = NoModel
    /\ dist = NoDist
    /\ next_t1 = 0
    /\ windows = <<>>
    /\ param_store = {}
    /\ num_models = 0

SolarIdle ==
    /\ spc = "idle"
    /\ args = Args("gaussian", "gaussian", DefaultStateDim, 0, 1, 1, 0,
                   DefaultStride, DefaultNumSteps)
    /\ raw = <<>>
    /\ SolarFresh

\* the censored script after line 39: y has been sampled
InitCensored ==
    /\ pc = "generate"
    /\ y \in [1..NumSamples -> YVals]
    /\ truncation_label = <<>>
    /\ y_obs = <<>>
    /\ svi_i = 0
    /\ calls = <<>>
    /\ SolarIdle

NextCensored ==
    \/ Censor
    \/ RunSequentialHMC
    \/ RunVectorizedHMC
    \/ SviStep

SpecCensored == InitCensored /\ [][NextCensored]_vars

\* a Model is constructed directly, with any noise names and dimensions
InitHMM ==
    /\ spc = "construct"
    /\ \E tn \in NoiseNames \cup OtherNames, on \in NoiseNames \cup OtherNames,
          sd \in 1..MaxDim, od \in 1..MaxDim :
          args = Args(tn, on, sd, od, 1, 1, 0, DefaultStride, DefaultNumSteps)
    /\ raw = <<>>
    /\ SolarFresh
    /\ CensoredIdle

NextHMM ==
    \/ ConstructModel
    \/ GetDist

SpecHMM == InitHMM /\ [][NextHMM]_vars

\* raw data of n rows and NumCols columns with arbitrary cells
RawTables(n) == [1..n -> [1..NumCols -> RawVals]]
\* raw data of n rows whose cells hold the row's index
RawRamp(n) == [i \in 1..n |-> [j \in 1..NumCols |-> i - 1]]

\* get_data is called on arbitrary raw data with any integer arguments
InitGetData ==
    /\ spc = "start"
    /\ \E tw \in (0 - MaxNeg)..MaxWindow, sw \in (0 - MaxNeg)..MaxWindow,
          nw \in (0 - MaxNeg)..MaxNumWindows :
          args = Args("gaussian", "gaussian", DefaultStateDim, 0, tw, sw, nw,
                      DefaultStride, DefaultNumSteps)
    /\ \E n \in 0..MaxRows : raw \in RawTables(n)
    /\ SolarFresh
    /\ CensoredIdle

NextGetData == GetData

SpecGetData == InitGetData /\ [][NextGetData]_vars

\* main is run on a command line that argparse accepts: the noise names are
\* among the choices, the integer arguments are any integers
InitSolar ==
    /\ spc = "start"
    /\ \E tn \in NoiseNames, on \in NoiseNames,
          tw \in (0 - MaxNeg)..MaxWindow, sw \in (0 - MaxNeg)..MaxWindow,
          nw \in (0 - MaxNeg)..MaxNumWindows,
          st \in (0 - MaxNeg)..MaxStride, ns \in {DefaultNumSteps, 200} :
          args = Args(tn, on, DefaultStateDim, 0, tw, sw, nw, st, ns)
    /\ \E n \in 0..MaxRawLen : raw = RawRamp(n)
    /\ SolarFresh
    /\ CensoredIdle

NextSolar ==
    \/ GetData
    \/ BacktestBegin
    \/ BacktestWindow

SpecSolar == InitSolar /\ [][NextSolar]_vars

(***************************************************************************)
(* Properties.                                                             *)
(***************************************************************************)
Min(p, q) == IF p < q THEN p ELSE q

\* C1: every window the backtest call of main evaluates is held out:
\* training uses rows [0, t1) with t1 >= train_window, the scored rows are
\* exactly [t1, t1 + test_window), the two ranges share no time step, the
\* scored range lies within the rows get_data retained, and successive
\* origins increase by stride.
C1_HeldOutWindows ==
    \A k \in DOMAIN windows :
        /\ windows[k].t1 >= args.train_window
        /\ windows[k].train_rows = 0..(windows[k].t1 - 1)
        /\ windows[k].scored_rows =
               windows[k].t1..(windows[k].t1 + args.test_window - 1)
        /\ windows[k].train_rows \cap windows[k].scored_rows = {}
        /\ windows[k].scored_rows \subseteq
               0..(args.train_window + args.num_windows * args.test_window - 1)
        /\ windows[k].scored_rows \subseteq 0..(Len(data) - 1)
        /\ k > 1 => windows[k].t1 = windows[k - 1].t1 + args.stride

\* what does hold of every window, whatever get_data kept: the same
\* statement with the retained rows taken to be the rows of data
HeldOutWithinData ==
    \A k \in DOMAIN windows :
        /\ windows[k].t1 >= args.train_window
        /\ windows[k].train_rows = 0..(windows[k].t1 - 1)
        /\ windows[k].scored_rows =
               windows[k].t1..(windows[k].t1 + args.test_window - 1)
        /\ windows[k].train_rows \cap windows[k].scored_rows = {}
        /\ windows[k].scored_rows \subseteq 0..(Len(data) - 1)
        /\ k > 1 => windows[k].t1 = windows[k - 1].t1 + args.stride

\* two windows have been evaluated with a stride above one, the second one
\* training on more than train_window rows
HeldOutWitness ==
    /\ Len(windows) >= 2
    /\ args.stride > 1
    /\ windows[2].t1 > args.train_window
    /\ windows[2].scored_rows # {}

\* C2: the model is refit independently at every origin: every window gets
\* the same options, a function of the command line alone, with warm_start
\* False; every window gets a new Model built from the same trans_noise,
\* obs_noise, state_dim and obs_dim; the fit of a window starts from an
\* empty parameter store.
C2_IndependentRefit ==
    \A k \in DOMAIN windows :
        /\ windows[k].options =
               [num_steps           |-> args.num_steps,
                learning_rate       |-> args.learning_rate,
                learning_rate_decay |-> args.learning_rate_decay,
                log_every           |-> args.log_every,
                dct_gradients       |-> FALSE,
                warm_start          |-> FALSE,
                clip_norm           |-> args.clip_norm,
                vectorize_particles |-> FALSE,
                num_particles       |-> 1]
        /\ \A j \in DOMAIN windows : windows[j].options = windows[k].options
        /\ ~windows[k].model.failed
        /\ windows[k].model.trans_noise = args.trans_noise
        /\ windows[k].model.obs_noise = args.obs_noise
        /\ windows[k].model.state_dim = args.state_dim
        /\ windows[k].model.obs_dim = NumCols
        /\ \A j \in DOMAIN windows :
               j # k => windows[j].model.id # windows[k].model.id
        /\ windows[k].store_before = {}

\* three windows have been evaluated
C2_Witness ==
    /\ Len(windows) >= 3
    /\ windows[3].t1 > windows[1].t1
    /\ param_store # {}

\* C3: after the censoring step, for every sample i, y_obs[i] = min(y[i], c)
\* and truncation_label[i] = 1 exactly when y[i] > c (otherwise 0); hence
\* y_obs[i] <= c, a label of 1 implies y_obs[i] = c and a label of 0 implies
\* y_obs[i] = y[i].
C3_Censoring ==
    pc \notin {"generate", "idle"} =>
        /\ DOMAIN y_obs = DOMAIN y
        /\ DOMAIN truncation_label = DOMAIN y
        /\ \A i \in DOMAIN y :
            /\ y_obs[i] = Min(y[i], c)
            /\ truncation_label[i] \in {0, 1}
            /\ truncation_label[i] = 1 <=> y[i] > c
            /\ y_obs[i] <= c
            /\ truncation_label[i] = 1 => y_obs[i] = c
            /\ truncation_label[i] = 0 => y_obs[i] = y[i]

\* censoring has acted on a sample above, one at and one below the threshold
C3_Witness ==
    /\ pc = "hmc_sequential"
    /\ \E i \in DOMAIN y : y[i] > c /\ truncation_label[i] = 1
    /\ \E i \in DOMAIN y : y[i] = c /\ truncation_label[i] = 0
    /\ \E i \in DOMAIN y : y[i] < c /\ y_obs[i] < c

\* C4: on the same arguments the vectorized model activates the same
\* likelihood terms as the sequential model: every data point contributes
\* exactly one term, the Exponential density of y[i] when its label is 0 and
\* the Bernoulli term of 1 - cdf(y[i]) observed as 1 when its label is 1, and
\* the two masks are complementary.
C4_SameTerms ==
    Len(calls) >= 2 =>
        /\ calls[1].run = "hmc_sequential"
        /\ calls[2].run = "hmc_vectorized"
        /\ calls[1].y = calls[2].y
        /\ calls[1].truncation_label = calls[2].truncation_label
        /\ \A i \in DOMAIN calls[2].y :
            /\ calls[2].terms[i] = calls[1].terms[i]
            /\ Cardinality(calls[2].terms[i]) = 1
            /\ calls[2].truncation_label[i] = 0 =>
                   calls[2].terms[i] = {ExpTerm(calls[2].y[i])}
            /\ calls[2].truncation_label[i] = 1 =>
                   calls[2].terms[i] = {BernTerm(calls[2].y[i], 1)}
            /\ mask_observed(calls[2].truncation_label)[i]
                   # mask_censored(calls[2].truncation_label)[i]

\* both models have run on labels that hold a 0 and a 1
C4_Witness ==
    /\ Len(calls) >= 2
    /\ \E i \in DOMAIN truncation_label : truncation_label[i] = 0
    /\ \E i \in DOMAIN truncation_label : truncation_label[i] = 1

\* C5: StableLinearHMM accepts only 'gaussian', 'stable', 'student' and
\* 'skew' for trans_noise and for obs_noise; with any other name for either
\* the assertion fails, and it fails before any parameter is created.
C5_NoiseNamesChecked ==
    spc \notin {"construct", "idle"} =>
        /\ hmm.failed <=>
               ~(args.trans_noise \in NoiseNames /\ args.obs_noise \in NoiseNames)
        /\ hmm.failed => (spc = "assert_failed" /\ hmm.params = {})
        /\ ~hmm.failed =>
               (spc # "assert_failed" /\ base_params \subseteq hmm.params)

\* a construction has failed on the observation noise alone
C5_Witness ==
    /\ spc = "assert_failed"
    /\ args.trans_noise \in NoiseNames
    /\ args.obs_noise \notin NoiseNames
    /\ hmm.failed

OptionalParams ==
    {"trans_stability", "trans_skew", "trans_nu",
     "obs_stability", "obs_skew", "obs_nu"}

\* C7: for each of the 16 noise combinations the constructor creates
\* trans_stability (obs_stability) exactly for 'stable' and 'skew',
\* trans_skew (obs_skew) exactly for 'skew', trans_nu (obs_nu) exactly for
\* 'student', and the distribution getters read no stability, skew or nu
\* parameter that was not created.
C7_ParamsMatchReads ==
    spc \in {"constructed", "dist_built", "attribute_error"} =>
        /\ "trans_stability" \in hmm.params
               <=> args.trans_noise \in {"stable", "skew"}
        /\ "trans_skew" \in hmm.params <=> args.trans_noise = "skew"
        /\ "trans_nu" \in hmm.params <=> args.trans_noise = "student"
        /\ "obs_stability" \in hmm.params
               <=> args.obs_noise \in {"stable", "skew"}
        /\ "obs_skew" \in hmm.params <=> args.obs_noise = "skew"
        /\ "obs_nu" \in hmm.params <=> args.obs_noise = "student"
        /\ spc # "attribute_error"
        /\ (dist.trans.reads \cap OptionalParams) \subseteq hmm.params
        /\ (dist.obs.reads \cap OptionalParams) \subseteq hmm.params

\* the getters have run on a skewed transition and a Student-t observation
C7_Witness ==
    /\ spc = "dist_built"
    /\ args.trans_noise = "skew"
    /\ args.obs_noise = "student"
    /\ {"trans_stability", "trans_skew", "obs_nu"} \subseteq dist.reads

\* the family a noise name stands for and the reparameterizer that fits it
Pairing(noise, d, reparam) ==
    /\ noise = "stable" =>
           d.family = "Stable" /\ d.skew = "zero"
           /\ reparam = "SymmetricStableReparam"
    /\ noise = "skew" =>
           d.family = "Stable" /\ d.skew = "learned"
           /\ reparam = "StableReparam"
    /\ noise = "student" =>
           d.family = "StudentT" /\ reparam = "StudentTReparam"
    /\ noise = "gaussian" =>
           d.family = "Normal" /\ reparam = "None"

\* C8: for every noise combination the reparameterizer in config['residual']
\* matches the family StableLinearHMM builds: 'stable' a zero-skew Stable
\* with SymmetricStableReparam, 'skew' a Stable with learned skew with
\* StableReparam, 'student' a StudentT with StudentTReparam, 'gaussian' a
\* Normal with None.
C8_ReparamMatchesFamily ==
    spc = "dist_built" =>
        /\ Pairing(args.trans_noise, dist.trans, hmm.config.trans)
        /\ Pairing(args.obs_noise, dist.obs, hmm.config.obs)

\* a Model with a skewed transition and a symmetric stable observation has
\* built its distribution
C8_Witness ==
    /\ spc = "dist_built"
    /\ args.trans_noise = "skew"
    /\ args.obs_noise = "stable"
    /\ hmm.config.trans = "StableReparam"

\* C6: get_data keeps exactly to_keep = train_window + num_windows *
\* test_window rows: with at least that many raw rows, data and covariates
\* both have exactly to_keep rows, the first to_keep raw rows standardized;
\* with fewer the assertion fails and nothing is returned.
C6_RowsKept ==
    spc # "start" =>
        LET keep == args.train_window + args.num_windows * args.test_window
        IN  IF Len(raw) >= keep
            THEN /\ spc = "data_ready"
                 /\ Len(data) = keep
                 /\ Len(covariates) = keep
                 /\ \A i \in 1..keep : \A j \in 1..NumCols :
                        /\ data[i][j].num =
                               keep * raw[i][j]
                               - SumTo([k \in 1..keep |-> raw[k][j]], keep)
                        /\ data[i][j].n1 = keep - 1
            ELSE /\ spc = "assert_failed"
                 /\ data = <<>>
                 /\ covariates = <<>>

\* what get_data does keep (a property of SpecGetData): for to_keep >= 0 the first to_keep rows, as C6
\* says; for to_keep < 0 the assertion of line 96 passes and data[:to_keep]
\* drops the last -to_keep rows, so Len(raw) + to_keep rows remain (none
\* when that is negative)
GetDataRowsKept ==
    spc # "start" =>
        LET keep == args.train_window + args.num_windows * args.test_window
        IN  /\ (keep >= 0 /\ Len(raw) >= keep) =>
                (spc = "data_ready" /\ Len(data) = keep
                 /\ Len(covariates) = keep)
            /\ keep > Len(raw) => (spc = "assert_failed" /\ data = <<>>)
            /\ keep < 0 =>
                /\ spc = "data_ready"
                /\ Len(data) = (IF Len(raw) + keep < 0 THEN 0
                                ELSE Len(raw) + keep)
                /\ Len(covariates) = Len(data)
                /\ \A i \in 1..Len(data) : \A j \in 1..NumCols :
                       data[i][j].num =
                           Len(data) * raw[i][j]
                           - SumTo([k \in 1..Len(data) |-> raw[k][j]],
                                   Len(data))

\* C9: every inference run passes the censored observations to the model:
\* for every data point with truncation_label = 1 the value the model
\* receives as y equals the threshold c, and none is above c.
C9_ModelSeesCensored ==
    \A k \in DOMAIN calls :
        \A i \in DOMAIN calls[k].y :
            /\ calls[k].y[i] <= c
            /\ calls[k].truncation_label[i] = 1 => calls[k].y[i] = c

====
